---- MODULE Spec2Model ----
(***************************************************************************)
(* Pavilion 'cancel' command (lib/pavilion/plugins/commands/cancel.py).    *)
(*                                                                         *)
(* One invocation of CancelCommand.run is a process that walks through     *)
(* the identifier loop (lines 72-113) and the test-run loop (lines         *)
(* 117-151).  The working directory (status ledgers, RUN_COMPLETE          *)
(* markers, series records), the scheduler and the OS process groups are   *)
(* the shared state.                                                       *)
(*                                                                         *)
(* Spec     : invocations run one after another on a quiescent working     *)
(*            directory.                                                   *)
(* ConcSpec : two invocations and the runs' own execution path interleave. *)
(***************************************************************************)
EXTENDS Integers, Sequences, FiniteSets, TLC

(***************************************************************************)
(* Bounds of the model.                                                    *)
(***************************************************************************)
\* Longest identifier list given on the command line.
MaxArgs == 2
\* Longest status ledger explored.
MaxLedger == 4

(***************************************************************************)
(* Program constants.                                                      *)
(***************************************************************************)
\* errno.EINVAL
EINVAL == 22
\* get_pgid's falsy answer for a series with no recorded PGID.
NoPgid == 0

CREATED == "CREATED"
SCHEDULED == "SCHEDULED"
RUNNING == "RUNNING"
COMPLETE == "COMPLETE"
CANCELLED == "CANCELLED"
ERROR == "ERROR"

STATES == {CREATED, SCHEDULED, RUNNING, COMPLETE, CANCELLED, ERROR}
Terminal == {COMPLETE, CANCELLED, ERROR}

(***************************************************************************)
(* The working directory the model explores.                               *)
(***************************************************************************)
\* Run directories under test_runs.
Runs == {1, 2, 3}
Me == "me"
Other == "other"
\* st_uid of each run directory.
Owner == [r \in Runs |-> IF r = 3 THEN Other ELSE Me]
\* The scheduler name stored on each run.
SchedulerOf == [r \in Runs |-> IF r = 3 THEN "bogus" ELSE "slurm"]
\* Names the plugin registry knows.
RegisteredSchedulers == {"slurm", "raw"}
\* Series records: member run ids in submission order, the leader's PGID,
\* and whether the members can be loaded. Series 9 has a PGID on record but
\* its members cannot be loaded.
SeriesIds == {1, 2, 9}
SeriesRec == [s \in SeriesIds |->
                CASE s = 1 -> [tests |-> <<1, 2>>, pgid |-> 100, loads |-> TRUE]
                  [] s = 2 -> [tests |-> <<2>>, pgid |-> NoPgid, loads |-> TRUE]
                  [] s = 9 -> [tests |-> <<>>, pgid |-> 900, loads |-> FALSE]]
Pgids == {100, 900}

\* Identifiers are strings, modelled as sequences of characters.
Tok1 == <<"1">>
Tok3 == <<"3">>
Tok99 == <<"9", "9">>
TokX == <<"x">>
TokS1 == <<"s", "1">>
TokS2 == <<"s", "2">>
TokS9 == <<"s", "9">>
TokSX == <<"s", "X">>
Tokens == {Tok1, Tok3, Tok99, TokX, TokS1, TokS2, TokS9, TokSX}

RECURSIVE SeqsUpTo(_, _)
SeqsUpTo(S, n) ==
    IF n = 0 THEN {<<>>}
    ELSE LET shorter == SeqsUpTo(S, n - 1)
         IN shorter \cup {Append(s, x) : s \in {q \in shorter : Len(q) = n - 1}, x \in S}

ArgLists == SeqsUpTo(Tokens, MaxArgs)
\* Identifier lists of the interleaved invocations.
ConcArgLists == {<<Tok1>>, <<TokS1>>}

AllProcs == {"p1", "p2"}
SeqProcs == {"p1"}

(***************************************************************************)
(* String conversions.                                                     *)
(***************************************************************************)
DigitChars == <<"0", "1", "2", "3", "4", "5", "6", "7", "8", "9">>
IsDigit(c) == \E k \in 1..10 : DigitChars[k] = c
DigitVal(c) == (CHOOSE k \in 1..10 : DigitChars[k] = c) - 1
NoError == "none"
ValueError == "ValueError"
TestSeriesError == "TestSeriesError"
TestRunError == "TestRunError"
SchedulerPluginError == "SchedulerPluginError"

RECURSIVE DigitsVal(_, _)
DigitsVal(t, acc) ==
    IF t = <<>> THEN acc ELSE DigitsVal(Tail(t), 10 * acc + DigitVal(Head(t)))

\* int(test_id) on the identifier alphabet of the model: digits parse, anything
\* else (and the empty string) is a ValueError.
ParseInt(t) ==
    IF t # <<>> /\ \A k \in 1..Len(t) : IsDigit(t[k])
    THEN [exc |-> NoError, val |-> DigitsVal(t, 0)]
    ELSE [exc |-> ValueError, val |-> 0]

RECURSIVE ToStr(_)
\* str(n) for n >= 0 (a run directory's name, a formatted id).
ToStr(n) ==
    IF n < 10 THEN <<DigitChars[n + 1]>>
    ELSE Append(ToStr(n \div 10), DigitChars[(n % 10) + 1])

\* test_id.startswith('s')
StartsWithS(t) == t # <<>> /\ Head(t) = "s"

(***************************************************************************)
(* Collaborators of the command: status file, test run, series, scheduler. *)
(***************************************************************************)
StatusInfo(state, note) == [state |-> state, note |-> note]

\* status.current(): the last entry of the ledger.
Current(l) == l[Len(l)]

\* status.set(state, note): an atomic append; a terminal ledger rejects every
\* state but a re-assertion of its own, which writes nothing.
LedgerAppendUnchecked(l, e) == [raised |-> FALSE, ledger |-> Append(l, e)]
LedgerAppend(l, e) ==
    IF Current(l).state \in Terminal
    THEN IF e.state = Current(l).state
         THEN [raised |-> FALSE, ledger |-> l]
         ELSE [raised |-> TRUE, ledger |-> l]
    ELSE [raised |-> FALSE, ledger |-> Append(l, e)]

\* TestRun.load(pav_cfg, test_id): TestRunError unless the run directory exists.
RunLoads(id) == id \in Runs

\* schedulers.get_plugin(name): fails for a name the registry does not know.
PluginKnown(id) == SchedulerOf[id] \in RegisteredSchedulers

\* The answer of a plugin whose call to the scheduler timed out: the job's
\* state is unknown, so the answer keeps it running and says so in the note.
TimedOut == StatusInfo(RUNNING, "cancel timed out")

\* What a plugin's cancel_job may answer: any canonical outcome, or that it
\* could not tell.
CancelResults ==
    { StatusInfo(CANCELLED, "terminated by user"),
      StatusInfo(COMPLETE, "job already finished"),
      StatusInfo(ERROR, "scancel failed"),
      TimedOut }

\* The series records of the working directory: members and process group.
VARIABLE series

\* TestSeries.get_pgid / TestSeries.from_id on a series identifier: a suffix
\* that is no number is a ValueError, a number with no series record a
\* TestSeriesError from get_pgid, a record whose members cannot be loaded a
\* TestSeriesError from from_id, after get_pgid has answered.
SeriesLookup(t) ==
    LET n == ParseInt(Tail(t))
    IN IF n.exc # NoError
       THEN [exc |-> ValueError, tests |-> <<>>, pgid |-> NoPgid]
       ELSE IF n.val \notin SeriesIds
            THEN [exc |-> TestSeriesError, tests |-> <<>>, pgid |-> NoPgid]
            ELSE IF ~series[n.val].loads
            THEN [exc |-> TestSeriesError, tests |-> <<>>, pgid |-> series[n.val].pgid]
            ELSE [exc |-> NoError, tests |-> series[n.val].tests,
                  pgid |-> series[n.val].pgid]

\* The run's own execution path (section 4.3 of the design).
NextStates(s) ==
    CASE s = CREATED -> {SCHEDULED}
      [] s = SCHEDULED -> {RUNNING}
      [] s = RUNNING -> {COMPLETE, ERROR}
      [] OTHER -> {}

(***************************************************************************)
(* Messages written by output.fprint.                                      *)
(***************************************************************************)
Msg(kind, id, state, pgid) == [kind |-> kind, id |-> id, state |-> state, pgid |-> pgid]
\* line 80-83
SeriesNotFound(t) == Msg("series_not_found", t, "", 0)
\* line 86-89
SeriesInvalid(t) == Msg("series_invalid", t, "", 0)
\* line 96-98
Killed(t, pgid) == Msg("killed", t, "", pgid)
\* line 101-103
UnableToKill(t, pgid) == Msg("unable_to_kill", t, "", pgid)
\* line 108-112
TestInvalid(t) == Msg("test_invalid", t, "", 0)
\* line 133-136
TestCancelled(id) == Msg("cancelled", ToStr(id), "", 0)
\* line 139-143
NotCancellable(id, state) == Msg("not_cancellable", ToStr(id), state, 0)
\* line 146-150
TestNotFound(id) == Msg("test_not_found", ToStr(id), "", 0)
\* line 156-157
StatusTable == Msg("status_table", <<>>, "", 0)

Returned(v) == <<v>>
NotReturned == <<>>
\* Python's False as an exit status.
BoolToInt(b) == IF b THEN 1 ELSE 0

(***************************************************************************)
(* The base configuration (config.py).                                     *)
(***************************************************************************)
VARIABLES
    fs,                      \* path -> what is there: nothing, a directory, a file
    target,                  \* find_pavilion_config's target argument
    PAV_CONFIG_FILE,         \* the environment's PAV_CONFIG_FILE
    PAV_CONFIG_SEARCH_DIRS,  \* the directories searched for pavilion.yaml
    pav_cfg,                 \* what find_pavilion_config returned or raised
    shared_group,            \* the value of the 'shared_group' option
    validation,              \* what the option's post-validator did
    user_config,             \* the 'user_config' option
    PAV_CONFIG_DIR,          \* the environment's PAV_CONFIG_DIR, or None
    values,                  \* the 'config_dirs' option as listed
    config_dirs,             \* what config_dirs_validator returned or raised
    dir_config,              \* config directory -> what its config.yaml holds
    working_dir_ok,          \* config directory -> its working_dir can be set up
    pav_cfg_config_dirs,     \* pav_cfg['config_dirs'] given to _configs_validator
    configs_values,          \* the 'configs' option as given
    configs                  \* what _configs_validator returned or raised

validator_vars == <<user_config, PAV_CONFIG_DIR, values, config_dirs, dir_config,
                    working_dir_ok, pav_cfg_config_dirs, configs_values, configs>>

config_vars == <<fs, target, PAV_CONFIG_FILE, PAV_CONFIG_SEARCH_DIRS, pav_cfg,
                 shared_group, validation, validator_vars>>

\* Paths are sequences of components; None is the empty path.
NoPath == <<>>
PAV_CONFIG_NAME == "pavilion.yaml"
GivenPaths == { <<"a.yaml">>, <<"b.yaml">> }
\* Lines 20-45: the working directory, ~/.pavilion, and PAV_CONFIG_DIR when
\* the environment names an existing one.
SearchDirLists == { <<"cwd", "home">>, <<"cwd", "home", "cfgdir">> }
ConfigIn(config_dir) == <<config_dir, PAV_CONFIG_NAME>>
CfgPaths == GivenPaths \cup { ConfigIn(d) : d \in {"cwd", "home", "cfgdir"} }
\* What a path can hold: nothing, a directory, a file that loads, a file
\* the loader rejects.
FsKinds == {"missing", "dir", "good", "bad"}

\* Path.is_file()
Exists(path) == fs[path] # "missing"
IsFile(path) == fs[path] \in {"good", "bad"}

RuntimeError == "RuntimeError"
CfgResult(kind, file) == [kind |-> kind, pav_cfg_file |-> file]
NotCalled == CfgResult("pending", NoPath)
NotFound == CfgResult("none", NoPath)
\* PavilionConfigLoader().load_empty()
LoadEmpty == CfgResult("empty", NoPath)

\* Lines 388-395 and 402-411: load the file, any exception becomes RuntimeError.
LoadConfig(path) ==
    IF fs[path] = "good" THEN CfgResult("config", path)
    ELSE CfgResult(RuntimeError, path)

\* Lines 383-395: for path in target, PAV_CONFIG_FILE.
RECURSIVE GivenLoop(_, _)
GivenLoop(paths, k) ==
    IF k > Len(paths) THEN NotFound
    ELSE IF paths[k] # NoPath /\ IsFile(paths[k]) THEN LoadConfig(paths[k])
    ELSE GivenLoop(paths, k + 1)

\* Lines 397-411: for config_dir in PAV_CONFIG_SEARCH_DIRS.
RECURSIVE SearchLoop(_, _)
SearchLoop(dirs, k) ==
    IF k > Len(dirs) THEN NotFound
    ELSE IF IsFile(ConfigIn(dirs[k])) THEN LoadConfig(ConfigIn(dirs[k]))
    ELSE SearchLoop(dirs, k + 1)

\* Lines 373-418.
find_pavilion_config(tgt) ==
    LET given == GivenLoop(<<tgt, PAV_CONFIG_FILE>>, 1)
        found == SearchLoop(PAV_CONFIG_SEARCH_DIRS, 1)
    IN IF given # NotFound THEN given
       ELSE IF found # NotFound THEN found
       ELSE LoadEmpty

\* Option values: None (the option is absent) or a string.
None == [none |-> TRUE, str |-> <<>>]
Str(chars) == [none |-> FALSE, str |-> chars]
\* Python's truth value of an option value.
AlwaysFalsy(value) == FALSE
Truthy(value) == ~value.none /\ Len(value.str) > 0
OptionValues == { None, Str(<<>>), Str(<<"g">>), Str(<<"0">>), Str(<<"h", "p", "c">>) }

Validated(exc, msg) == [exc |-> exc, msg |-> msg]
NotValidated == Validated("pending", "")
\* Lines 209-219: the validator _invalidator(msg) returns.
invalidator(value) ==
    IF Truthy(value) THEN Validated(ValueError, "Invalid Option")
    ELSE Validated(NoError, "")

(***************************************************************************)
(* The validators of 'config_dirs' and 'configs' (config.py).              *)
(***************************************************************************)
find_vars == <<fs, target, PAV_CONFIG_FILE, PAV_CONFIG_SEARCH_DIRS, pav_cfg,
               shared_group, validation>>

\* Longest 'config_dirs' list tried.
MaxDirs == 2

\* Directories are named by strings; "None" is an unset PAV_CONFIG_DIR.
NoDir == "None"
USER_HOME_PAV == "home"
\* The directory of config.py itself, Path(__file__).parent.
LibDir == "lib"
\* Paths a 'config_dirs' option can list: a directory, a symbolic link to it,
\* a path that does not exist, a path under a directory that cannot be
\* searched, and the user's ~/.pavilion.
ListedPaths == {"d1", "d1link", "missing", "locked", "home"}
\* Path.resolve()
Resolved(path) == IF path = "d1link" THEN "d1" ELSE path
\* Path.exists(): True, False, or PermissionError when the path cannot be
\* looked at.
FileNotFoundError == "FileNotFoundError"
PermissionError == "PermissionError"
PathExists(path) ==
    CASE path = "missing" -> "no"
      [] path = "locked" -> PermissionError
      [] OTHER -> "yes"

\* x in q
Member(x, q) == \E k \in 1..Len(q) : q[k] = x

DirsResult(exc, dirs) == [exc |-> exc, dirs |-> dirs]
DirsNotRun == DirsResult("pending", <<>>)

\* Lines 78-84: the directories that precede the listed ones.
InitialDirs(config) ==
    (IF config.user_config /\ PathExists(USER_HOME_PAV) = "yes"
     THEN <<Resolved(USER_HOME_PAV)>> ELSE <<>>)
    \o (IF PAV_CONFIG_DIR # NoDir /\ PathExists(PAV_CONFIG_DIR) = "yes"
        THEN <<Resolved(PAV_CONFIG_DIR)>> ELSE <<>>)

\* Lines 86-108: for value in values. A path that does not exist is reported
\* and then listed with iterdir(), which raises FileNotFoundError; only
\* PermissionError is caught. The membership test at line 106 is made on the
\* path as listed, the path appended is the resolved one.
RECURSIVE DirsLoop(_, _, _)
DirsLoop(vals, k, acc) ==
    IF k > Len(vals) THEN DirsResult(NoError, acc)
    ELSE LET path == vals[k]
         IN CASE PathExists(path) = PermissionError -> DirsLoop(vals, k + 1, acc)
              [] PathExists(path) = "no" -> DirsResult(FileNotFoundError, <<>>)
              [] OTHER ->
                   DirsLoop(vals, k + 1,
                            IF Member(path, acc) THEN acc ELSE Append(acc, Resolved(path)))

\* Lines 74-110.
config_dirs_validator(config, vals) == DirsLoop(vals, 1, InitialDirs(config))

\* Directories pav_cfg['config_dirs'] can hold.
CfgDirs == {"home", "cfgdir", "d1"}
\* What reading a directory's config.yaml gives: PermissionError, another
\* error, a config without a label (also when there is no file), or a config
\* labelled x or y.
DirConfigKinds == {PermissionError, "bad", "nolabel", "x", "y"}
\* config.get('label')
ConfigLabel(kind) == IF kind \in {"x", "y"} THEN Str(<<kind>>) ELSE None

\* Lines 151-158: the label of a directory whose config has none.
DefaultLabel(config_dir) ==
    IF config_dir = USER_HOME_PAV THEN Str(<<"user">>)
    ELSE IF config_dir = PAV_CONFIG_DIR THEN Str(<<"main">>)
    ELSE IF config_dir = LibDir THEN Str(<<"lib">>)
    ELSE None

\* configs is an OrderedDict: a sequence of entries with distinct keys.
Entry(key, label, path) == [key |-> key, label |-> label, path |-> path]
\* label in configs
HasKey(entries, key) == \E k \in 1..Len(entries) : entries[k].key = key
\* configs[key] = config: replaces the value of a key already there.
SetItem(entries, e) ==
    IF HasKey(entries, e.key)
    THEN [k \in 1..Len(entries) |-> IF entries[k].key = e.key THEN e ELSE entries[k]]
    ELSE Append(entries, e)

ConfigsResult(exc, entries) == [exc |-> exc, entries |-> entries]
ConfigsNotRun == ConfigsResult("pending", <<>>)

\* Lines 128-188: for config_dir in config_dirs. Line 168 stores the new label
\* in config['label'] only; the key used at line 188 is the label of line 161.
RECURSIVE ConfigsLoop(_, _, _, _)
ConfigsLoop(dirs, k, entries, label_i) ==
    IF k > Len(dirs) THEN ConfigsResult(NoError, entries)
    ELSE LET config_dir == dirs[k]
             kind == dir_config[config_dir]
             given == ConfigLabel(kind)
             label == IF Truthy(given) THEN given ELSE DefaultLabel(config_dir)
             relabel == HasKey(entries, label) \/ ~Truthy(label)
             key == IF relabel /\ label.none THEN Str(<<"<not_defined>">>) ELSE label
             new_label == Str(<<"lbl">> \o ToStr(label_i))
             field == IF relabel THEN new_label ELSE given
             next_i == IF relabel THEN label_i + 1 ELSE label_i
         IN IF kind = PermissionError THEN ConfigsLoop(dirs, k + 1, entries, label_i)
            ELSE IF kind = "bad" THEN ConfigsResult(RuntimeError, <<>>)
            ELSE IF ~working_dir_ok[config_dir]
                 THEN ConfigsLoop(dirs, k + 1, entries, next_i)
            ELSE ConfigsLoop(dirs, k + 1,
                             SetItem(entries, Entry(key, field, config_dir)), next_i)

\* Lines 113-190.
configs_validator(cfg, vals) ==
    IF vals # <<>> THEN ConfigsResult(ValueError, <<>>)
    ELSE ConfigsLoop(cfg.config_dirs, 1, <<>>, 1)

\* Lists of distinct directories.
DistinctSeqs(S) ==
    UNION { { q \in [1..n -> S] : \A a, b \in 1..n : a # b => q[a] # q[b] } :
            n \in 0..Cardinality(S) }

DirsIdle ==
    /\ user_config = FALSE
    /\ values = <<>>
    /\ config_dirs = DirsNotRun

ConfigsIdle ==
    /\ dir_config = [d \in CfgDirs |-> "nolabel"]
    /\ working_dir_ok = [d \in CfgDirs |-> TRUE]
    /\ pav_cfg_config_dirs = <<>>
    /\ configs_values = <<>>
    /\ configs = ConfigsNotRun

ValidatorsIdle ==
    /\ PAV_CONFIG_DIR = NoDir
    /\ DirsIdle
    /\ ConfigsIdle

DirsWorld ==
    /\ user_config \in BOOLEAN
    /\ values \in SeqsUpTo(ListedPaths, MaxDirs)
    /\ config_dirs = DirsNotRun

ConfigsWorld ==
    /\ dir_config \in [CfgDirs -> DirConfigKinds]
    /\ working_dir_ok \in [CfgDirs -> BOOLEAN]
    /\ pav_cfg_config_dirs \in DistinctSeqs(CfgDirs)
    /\ configs_values \in {<<>>, <<"manual">>}
    /\ configs = ConfigsNotRun

\* One of the two validators gets inputs, the other is left alone.
ValidatorWorld ==
    /\ PAV_CONFIG_DIR \in {NoDir, "cfgdir"}
    /\ \/ DirsWorld /\ ConfigsIdle
       \/ DirsIdle /\ ConfigsWorld

\* Lines 231-239: the post-validator of 'config_dirs'.
ConfigDirsValidator ==
    /\ config_dirs = DirsNotRun
    /\ config_dirs' = config_dirs_validator([user_config |-> user_config], values)
    /\ UNCHANGED <<find_vars, user_config, PAV_CONFIG_DIR, values, dir_config,
                   working_dir_ok, pav_cfg_config_dirs, configs_values, configs>>

\* Lines 350-353: the post-validator of 'configs'.
ConfigsValidator ==
    /\ configs = ConfigsNotRun
    /\ configs' = configs_validator([config_dirs |-> pav_cfg_config_dirs], configs_values)
    /\ UNCHANGED <<find_vars, user_config, PAV_CONFIG_DIR, values, config_dirs, dir_config,
                   working_dir_ok, pav_cfg_config_dirs, configs_values>>

\* The configuration is not looked at.
FindIdle ==
    /\ fs = [path \in CfgPaths |-> "missing"]
    /\ target = NoPath
    /\ PAV_CONFIG_FILE = NoPath
    /\ PAV_CONFIG_SEARCH_DIRS = <<"cwd", "home">>
    /\ pav_cfg = NotCalled
    /\ shared_group = None
    /\ validation = NotValidated

CfgIdle == FindIdle /\ ValidatorsIdle

CfgWorld ==
    /\ fs \in [CfgPaths -> FsKinds]
    /\ target \in GivenPaths \cup {NoPath}
    /\ PAV_CONFIG_FILE \in GivenPaths \cup {NoPath}
    /\ PAV_CONFIG_SEARCH_DIRS \in SearchDirLists
    /\ pav_cfg = NotCalled
    /\ shared_group \in OptionValues
    /\ validation = NotValidated
    /\ ValidatorsIdle

\* find_pavilion_config(target)
FindPavilionConfig ==
    /\ pav_cfg = NotCalled
    /\ pav_cfg' = find_pavilion_config(target)
    /\ UNCHANGED <<fs, target, PAV_CONFIG_FILE, PAV_CONFIG_SEARCH_DIRS, shared_group,
                   validation, validator_vars>>

\* Lines 260-264: the post-validator of 'shared_group'.
ValidateSharedGroup ==
    /\ validation = NotValidated
    /\ validation' = invalidator(shared_group)
    /\ UNCHANGED <<fs, target, PAV_CONFIG_FILE, PAV_CONFIG_SEARCH_DIRS, pav_cfg,
                   shared_group, validator_vars>>

(***************************************************************************)
(* The cancel command's state.                                             *)
(***************************************************************************)
VARIABLES
    ledger,            \* run -> status file: sequence of [state, note]
    complete,          \* run -> RUN_COMPLETE exists
    alive,             \* live process groups
    signals,           \* SIGTERMs delivered: sequence of [series, pgid]
    calls,             \* run -> number of cancel_job calls the scheduler got
    user_series,       \* the user's last-series pointer (a token, or <<>>)
    args,              \* args.tests and args.all as given on the command line
    pc,                \* per invocation: position in run()
    tests,             \* args.tests
    i,                 \* index of the identifier loop
    test_list,         \* test_list
    j,                 \* index of the run loop
    test_object_list,  \* test_object_list (run ids of the loaded runs)
    cancel_failed,     \* cancel_failed
    status,            \* status read at line 123
    cancel_status,     \* result of sched.cancel_job
    out,               \* messages on self.outfile
    err,               \* messages on self.errfile
    rc                 \* return value

cancel_vars == <<ledger, complete, alive, signals, calls, user_series, series, args, pc,
                 tests, i, test_list, j, test_object_list, cancel_failed, status,
                 cancel_status, out, err, rc>>

vars == <<cancel_vars, config_vars>>

shared == <<ledger, complete, alive, signals, calls, user_series, series>>

(***************************************************************************)
(* Initial state: a working directory with three runs and two series.      *)
(***************************************************************************)
\* Ledgers a run can have reached through its own execution path.
InitLedgers ==
    { <<StatusInfo(CREATED, "")>>,
      <<StatusInfo(CREATED, ""), StatusInfo(SCHEDULED, "")>>,
      <<StatusInfo(CREATED, ""), StatusInfo(SCHEDULED, ""), StatusInfo(RUNNING, "")>>,
      <<StatusInfo(CREATED, ""), StatusInfo(SCHEDULED, ""), StatusInfo(RUNNING, ""),
        StatusInfo(COMPLETE, "")>> }

NoArgs == [tests |-> <<>>, all |-> FALSE]

ProcInit ==
    /\ pc = [p \in AllProcs |-> "idle"]
    /\ args = [p \in AllProcs |-> NoArgs]
    /\ tests = [p \in AllProcs |-> <<>>]
    /\ i = [p \in AllProcs |-> 1]
    /\ test_list = [p \in AllProcs |-> <<>>]
    /\ j = [p \in AllProcs |-> 1]
    /\ test_object_list = [p \in AllProcs |-> <<>>]
    /\ cancel_failed = [p \in AllProcs |-> FALSE]
    /\ status = [p \in AllProcs |-> StatusInfo(CREATED, "")]
    /\ cancel_status = [p \in AllProcs |-> StatusInfo(CREATED, "")]
    /\ out = [p \in AllProcs |-> <<>>]
    /\ err = [p \in AllProcs |-> <<>>]
    /\ rc = [p \in AllProcs |-> NotReturned]

Init ==
    /\ ledger \in [Runs -> InitLedgers]
    /\ ledger[3] = <<StatusInfo(CREATED, ""), StatusInfo(SCHEDULED, ""), StatusInfo(RUNNING, "")>>
    /\ Current(ledger[2]).state \in {SCHEDULED, COMPLETE}  \* run 2: queued or finished
    /\ complete = [r \in Runs |-> Current(ledger[r]).state \in Terminal]
    /\ alive = Pgids
    /\ signals = <<>>
    /\ calls = [r \in Runs |-> 0]
    /\ user_series \in {<<>>, TokS2}
    /\ series = SeriesRec
    /\ ProcInit
    /\ CfgIdle

(***************************************************************************)
(* CancelCommand.run                                                       *)
(***************************************************************************)
\* All orders in which iterdir() can list a set of run directories.
Orders(S) ==
    { f \in [1..Cardinality(S) -> S] : \A a, b \in 1..Cardinality(S) : a # b => f[a] # f[b] }

\* Lines 57-64: the runs --all selects, as directory names.
AllSelectedAnyOwner == { r \in Runs : ~complete[r] }
AllSelected == { r \in Runs : Owner[r] = Me /\ ~complete[r] }

\* Lines 54-69: args.tests after the defaults are filled in.
EffectiveTestsAllByDefault(given, all) ==
    IF given # <<>> THEN {given}
    ELSE { [k \in 1..Len(o) |-> ToStr(o[k])] : o \in Orders(AllSelected) }
EffectiveTests(given, all) ==
    IF given # <<>> THEN {given}
    ELSE IF all THEN { [k \in 1..Len(o) |-> ToStr(o[k])] : o \in Orders(AllSelected) }
    ELSE IF user_series # <<>> THEN {<<user_series>>}
    ELSE {<<>>}

\* Line 126: only runs that are running or scheduled are cancelled.
CancellableUnlessComplete(state) == state # COMPLETE
Cancellable(state) == state \in {RUNNING, SCHEDULED}

\* Line 131: the entry recorded for a cancelled run.
SetEntryAlwaysCancelled(cs) == StatusInfo(CANCELLED, cs.note)
SetEntry(cs) == StatusInfo(cs.state, cs.note)

\* Lines 100-103: ProcessLookupError is reported and the loop goes on.
LookupErrorRc(cur) == cur

\* Lines 138-143: a run that is not cancellable leaves cancel_failed alone.
SkipSetsCancelFailed(cf) == TRUE
SkipCancelFailed(cf) == cf

\* Lines 119-120: the exception the loading of run id raises, if any.
LoadError(id) ==
    IF ~RunLoads(id) THEN TestRunError
    ELSE IF ~PluginKnown(id) THEN SchedulerPluginError
    ELSE NoError

\* Line 145: the only exception the run loop catches.
CaughtAnyError(exc) == exc # NoError
Caught(exc) == exc = TestRunError

\* Lines 75-78: get_pgid and from_id read the series record, and the members
\* are copied into test_list; the record is left as it was.
SeriesAfterResolveDropsMembers(s, t) ==
    IF StartsWithS(t) /\ SeriesLookup(t).exc = NoError
    THEN [s EXCEPT ![ParseInt(Tail(t)).val].tests = <<>>]
    ELSE s
SeriesAfterResolve(s, t) == s

\* Lines 79-90: the exceptions of the series lookup that make run() return
\* before the group is signalled at line 95.
SeriesErrorReturnsOnValueError(exc) == exc = ValueError
SeriesErrorReturns(exc) == exc \in {TestSeriesError, ValueError}

\* Lines 130-132: the result of cancel_job is written to the status file
\* before the run is marked complete.
AfterCancelJobMarksComplete == "complete"
AfterCancelJob == "set"

\* Where the identifier loop goes after identifier k.
AfterIdentifierLoadsAtOnce(p, k) == "load"
AfterIdentifier(p, k) == IF k >= Len(tests[p]) THEN "load" ELSE "resolve"

\* Lines 52-71 (and 115-116 when there is nothing to resolve).
Start(p, lists, flags) ==
    /\ pc[p] = "idle"
    /\ \E given \in lists, all \in flags :
         \E t \in EffectiveTests(given, all) :
            /\ args' = [args EXCEPT ![p] = [tests |-> given, all |-> all]]
            /\ tests' = [tests EXCEPT ![p] = t]
            /\ pc' = [pc EXCEPT ![p] = IF t = <<>> THEN "load" ELSE "resolve"]
    /\ i' = [i EXCEPT ![p] = 1]
    /\ test_list' = [test_list EXCEPT ![p] = <<>>]
    /\ j' = [j EXCEPT ![p] = 1]
    /\ test_object_list' = [test_object_list EXCEPT ![p] = <<>>]
    /\ cancel_failed' = [cancel_failed EXCEPT ![p] = FALSE]
    /\ status' = [status EXCEPT ![p] = StatusInfo(CREATED, "")]
    /\ cancel_status' = [cancel_status EXCEPT ![p] = StatusInfo(CREATED, "")]
    /\ out' = [out EXCEPT ![p] = <<>>]
    /\ err' = [err EXCEPT ![p] = <<>>]
    /\ rc' = [rc EXCEPT ![p] = NotReturned]
    /\ UNCHANGED shared

\* Lines 72-113: one pass of the identifier loop.
Resolve(p) ==
    /\ pc[p] = "resolve"
    /\ LET t == tests[p][i[p]]
           fail(msg) ==
               /\ err' = [err EXCEPT ![p] = Append(@, msg)]
               /\ rc' = [rc EXCEPT ![p] = Returned(EINVAL)]
               /\ pc' = [pc EXCEPT ![p] = "done"]
               /\ UNCHANGED <<i, test_list, out, alive, signals>>
           goon == /\ i' = [i EXCEPT ![p] = @ + 1]
                   /\ pc' = [pc EXCEPT ![p] = AfterIdentifier(p, i[p])]
       IN IF StartsWithS(t)
          THEN LET s == SeriesLookup(t)
               IN IF SeriesErrorReturns(s.exc)
                  THEN fail(IF s.exc = TestSeriesError THEN SeriesNotFound(t)
                                                       ELSE SeriesInvalid(t))
                  ELSE /\ test_list' = [test_list EXCEPT ![p] = @ \o s.tests]
                       /\ IF s.pgid # NoPgid
                          THEN IF s.pgid \in alive
                               THEN /\ signals' = Append(signals, [series |-> t, pgid |-> s.pgid])
                                    /\ alive' = alive \ {s.pgid}
                                    /\ out' = [out EXCEPT ![p] = Append(@, Killed(t, s.pgid))]
                                    /\ UNCHANGED <<err, rc>>
                                    /\ goon
                               ELSE /\ err' = [err EXCEPT ![p] = Append(@, UnableToKill(t, s.pgid))]
                                    /\ rc' = [rc EXCEPT ![p] = LookupErrorRc(@)]
                                    /\ IF rc'[p] = NotReturned
                                       THEN goon
                                       ELSE /\ pc' = [pc EXCEPT ![p] = "done"]
                                            /\ UNCHANGED i
                                    /\ UNCHANGED <<out, alive, signals>>
                          ELSE /\ goon
                               /\ UNCHANGED <<out, err, rc, alive, signals>>
          ELSE LET n == ParseInt(t)
               IN IF n.exc = ValueError THEN fail(TestInvalid(t))
                  ELSE /\ test_list' = [test_list EXCEPT ![p] = Append(@, n.val)]
                       /\ goon
                       /\ UNCHANGED <<out, err, rc, alive, signals>>
    /\ series' = SeriesAfterResolve(series, tests[p][i[p]])
    /\ UNCHANGED <<ledger, complete, calls, user_series, args, tests, j, test_object_list,
                   cancel_failed, status, cancel_status>>

\* Lines 117-126 and 138-151: load the next run and read its status.
Load(p) ==
    /\ pc[p] = "load"
    /\ j[p] <= Len(test_list[p])
    /\ LET id == test_list[p][j[p]]
       IN IF Caught(LoadError(id))
          THEN /\ err' = [err EXCEPT ![p] = Append(@, TestNotFound(id))]
               /\ rc' = [rc EXCEPT ![p] = Returned(EINVAL)]
               /\ pc' = [pc EXCEPT ![p] = "done"]
               /\ UNCHANGED <<j, test_object_list, cancel_failed, status, out>>
          ELSE IF LoadError(id) # NoError
          THEN /\ pc' = [pc EXCEPT ![p] = "raised"]
               /\ UNCHANGED <<j, test_object_list, cancel_failed, status, out, err, rc>>
          ELSE /\ test_object_list' = [test_object_list EXCEPT ![p] = Append(@, id)]
               /\ status' = [status EXCEPT ![p] = Current(ledger[id])]
               /\ IF Cancellable(status'[p].state)
                  THEN /\ pc' = [pc EXCEPT ![p] = "cancel"]
                       /\ UNCHANGED <<j, cancel_failed, out>>
                  ELSE /\ out' = [out EXCEPT ![p] = Append(@, NotCancellable(id, status'[p].state))]
                       /\ cancel_failed' = [cancel_failed EXCEPT ![p] = SkipCancelFailed(@)]
                       /\ j' = [j EXCEPT ![p] = @ + 1]
                       /\ UNCHANGED pc
               /\ UNCHANGED <<err, rc>>
    /\ UNCHANGED <<shared, args, tests, i, test_list, cancel_status>>

\* Line 130: sched.cancel_job(test).
CancelJob(p) ==
    /\ pc[p] = "cancel"
    /\ LET id == test_list[p][j[p]]
       IN /\ Len(ledger[id]) < MaxLedger
          /\ \E res \in CancelResults :
                cancel_status' = [cancel_status EXCEPT ![p] = res]
          /\ calls' = [calls EXCEPT ![id] = @ + 1]
    /\ pc' = [pc EXCEPT ![p] = AfterCancelJob]
    /\ UNCHANGED <<ledger, complete, alive, signals, user_series, series, args, tests, i, test_list, j,
                   test_object_list, cancel_failed, status, out, err, rc>>

\* Line 131: test.status.set(cancel_status.state, cancel_status.note).
StatusSet(p) ==
    /\ pc[p] = "set"
    /\ LET id == test_list[p][j[p]]
           res == LedgerAppend(ledger[id], SetEntry(cancel_status[p]))
       IN /\ ledger' = [ledger EXCEPT ![id] = res.ledger]
          /\ pc' = [pc EXCEPT ![p] = IF res.raised THEN "raised" ELSE "complete"]
    /\ UNCHANGED <<complete, alive, signals, calls, user_series, series, args, tests, i, test_list, j,
                   test_object_list, cancel_failed, status, cancel_status, out, err, rc>>

\* Lines 132-136: test.set_run_complete() and the report.
SetComplete(p) ==
    /\ pc[p] = "complete"
    /\ LET id == test_list[p][j[p]]
       IN /\ complete' = [complete EXCEPT ![id] = TRUE]
          /\ out' = [out EXCEPT ![p] = Append(@, TestCancelled(id))]
    /\ j' = [j EXCEPT ![p] = @ + 1]
    /\ pc' = [pc EXCEPT ![p] = "load"]
    /\ UNCHANGED <<ledger, alive, signals, calls, user_series, series, args, tests, i, test_list,
                   test_object_list, cancel_failed, status, cancel_status, err, rc>>

\* Lines 153-160: the optional status table and the return value.
Finish(p) ==
    /\ pc[p] = "load"
    /\ j[p] > Len(test_list[p])
    /\ \E args_status \in BOOLEAN :
          out' = [out EXCEPT ![p] = IF args_status /\ test_object_list[p] # <<>>
                                    THEN Append(@, StatusTable) ELSE @]
    /\ rc' = [rc EXCEPT ![p] = Returned(BoolToInt(cancel_failed[p]))]
    /\ pc' = [pc EXCEPT ![p] = "done"]
    /\ UNCHANGED <<shared, args, tests, i, test_list, j, test_object_list, cancel_failed,
                   status, cancel_status, err>>

\* The process ends (by return or by an uncaught exception): its locals are gone.
Exit(p) ==
    /\ pc[p] \in {"done", "raised"}
    /\ pc' = [pc EXCEPT ![p] = "idle"]
    /\ args' = [args EXCEPT ![p] = NoArgs]
    /\ tests' = [tests EXCEPT ![p] = <<>>]
    /\ i' = [i EXCEPT ![p] = 1]
    /\ test_list' = [test_list EXCEPT ![p] = <<>>]
    /\ j' = [j EXCEPT ![p] = 1]
    /\ test_object_list' = [test_object_list EXCEPT ![p] = <<>>]
    /\ cancel_failed' = [cancel_failed EXCEPT ![p] = FALSE]
    /\ status' = [status EXCEPT ![p] = StatusInfo(CREATED, "")]
    /\ cancel_status' = [cancel_status EXCEPT ![p] = StatusInfo(CREATED, "")]
    /\ out' = [out EXCEPT ![p] = <<>>]
    /\ err' = [err EXCEPT ![p] = <<>>]
    /\ rc' = [rc EXCEPT ![p] = NotReturned]
    /\ UNCHANGED shared

(***************************************************************************)
(* The runs' own execution path (design section 4.3), outside the command. *)
(***************************************************************************)
RunAdvance(r) ==
    /\ ~complete[r]
    /\ Len(ledger[r]) < MaxLedger
    /\ \E s \in NextStates(Current(ledger[r]).state) :
          LET res == LedgerAppend(ledger[r], StatusInfo(s, ""))
          IN /\ ~res.raised
             /\ ledger' = [ledger EXCEPT ![r] = res.ledger]
    /\ UNCHANGED <<complete, alive, signals, calls, user_series, series, pc, args, tests, i, test_list, j,
                   test_object_list, cancel_failed, status, cancel_status, out, err, rc>>

RunMarkComplete(r) ==
    /\ ~complete[r]
    /\ Current(ledger[r]).state \in Terminal
    /\ complete' = [complete EXCEPT ![r] = TRUE]
    /\ UNCHANGED <<ledger, alive, signals, calls, user_series, series, pc, args, tests, i, test_list, j,
                   test_object_list, cancel_failed, status, cancel_status, out, err, rc>>

(***************************************************************************)
(* Specifications.                                                         *)
(***************************************************************************)
Next ==
    /\ \E p \in SeqProcs :
          \/ Start(p, ArgLists, BOOLEAN)
          \/ Resolve(p)
          \/ Load(p)
          \/ CancelJob(p)
          \/ StatusSet(p)
          \/ SetComplete(p)
          \/ Finish(p)
          \/ Exit(p)
    /\ UNCHANGED config_vars

Spec == Init /\ [][Next]_vars

ConcInit ==
    /\ ledger \in [Runs -> InitLedgers]
    /\ ledger[3] = <<StatusInfo(CREATED, ""), StatusInfo(SCHEDULED, ""), StatusInfo(RUNNING, "")>>
    /\ ledger[2] = <<StatusInfo(CREATED, ""), StatusInfo(SCHEDULED, "")>>
    /\ Cancellable(Current(ledger[1]).state)
    /\ complete = [r \in Runs |-> Current(ledger[r]).state \in Terminal]
    /\ alive = Pgids
    /\ signals = <<>>
    /\ calls = [r \in Runs |-> 0]
    /\ user_series = TokS2
    /\ series = SeriesRec
    /\ ProcInit
    /\ CfgIdle

ConcNext ==
    /\ \/ \E p \in AllProcs :
            \/ Start(p, ConcArgLists, {FALSE})
            \/ Resolve(p)
            \/ Load(p)
            \/ CancelJob(p)
            \/ StatusSet(p)
            \/ SetComplete(p)
            \/ Finish(p)
       \/ \E r \in Runs \ {3} :
            \/ RunAdvance(r)
            \/ RunMarkComplete(r)
    /\ UNCHANGED config_vars

ConcSpec == ConcInit /\ [][ConcNext]_vars

\* The configuration is found and validated before any command runs.
CfgInit ==
    /\ ledger = [r \in Runs |-> <<StatusInfo(CREATED, "")>>]
    /\ complete = [r \in Runs |-> FALSE]
    /\ alive = Pgids
    /\ signals = <<>>
    /\ calls = [r \in Runs |-> 0]
    /\ user_series = <<>>
    /\ series = SeriesRec
    /\ ProcInit
    /\ CfgWorld

CfgNext ==
    /\ \/ FindPavilionConfig
       \/ ValidateSharedGroup
    /\ UNCHANGED cancel_vars

CfgSpec == CfgInit /\ [][CfgNext]_vars

\* The validators run on a loaded configuration, before any command.
ValidatorInit ==
    /\ ledger = [r \in Runs |-> <<StatusInfo(CREATED, "")>>]
    /\ complete = [r \in Runs |-> FALSE]
    /\ alive = Pgids
    /\ signals = <<>>
    /\ calls = [r \in Runs |-> 0]
    /\ user_series = <<>>
    /\ series = SeriesRec
    /\ ProcInit
    /\ FindIdle
    /\ ValidatorWorld

ValidatorNext ==
    /\ \/ ConfigDirsValidator
       \/ ConfigsValidator
    /\ UNCHANGED cancel_vars

ValidatorSpec == ValidatorInit /\ [][ValidatorNext]_vars

(***************************************************************************)
(* Vocabulary of the properties.                                           *)
(***************************************************************************)
InSeq(x, q) == \E k \in 1..Len(q) : q[k] = x
IsCancellableState(st) == st \in {RUNNING, SCHEDULED}
StateOf(r) == Current(ledger[r]).state

\* The run ids an identifier names, once it resolves.
IdRuns(t) == IF StartsWithS(t) THEN SeriesLookup(t).tests ELSE <<ParseInt(t).val>>
\* The identifier names a series, or a run that can be loaded.
Resolves(t) ==
    IF StartsWithS(t)
    THEN SeriesLookup(t).exc = NoError
         /\ \A k \in 1..Len(SeriesLookup(t).tests) : RunLoads(SeriesLookup(t).tests[k])
    ELSE ParseInt(t).exc = NoError /\ RunLoads(ParseInt(t).val)
\* Every run the identifier names has a scheduler the registry knows.
PluginsKnown(t) == \A k \in 1..Len(IdRuns(t)) : PluginKnown(IdRuns(t)[k])
\* Invocation p reported an outcome of the run loop for run r.
Reported(p, r) ==
    \E k \in 1..Len(out[p]) :
        /\ out[p][k].id = ToStr(r)
        /\ out[p][k].kind \in {"cancelled", "not_cancellable"}
\* Invocation p took a step.
Stepped(p) == pc'[p] # pc[p] \/ j'[p] # j[p] \/ i'[p] # i[p]
\* The run under the run loop's cursor.
Cursor(p) == test_list[p][j[p]]

(***************************************************************************)
(* C1: in one invocation a resolution failure of one identifier does not   *)
(* abort processing: once the invocation has returned, every identifier of *)
(* the list that is valid has been processed (each of its runs has a       *)
(* reported outcome, and none of them is left SCHEDULED/RUNNING without    *)
(* having been cancelled), wherever the failing identifier stands.         *)
(***************************************************************************)
C1_ValidIdentifiersProcessed ==
    \A p \in AllProcs :
        pc[p] = "done" =>
            \A k \in 1..Len(tests[p]) :
                (Resolves(tests[p][k]) /\ PluginsKnown(tests[p][k])) =>
                    \A m \in 1..Len(IdRuns(tests[p][k])) :
                        LET r == IdRuns(tests[p][k])[m]
                        IN Reported(p, r) /\ (IsCancellableState(StateOf(r)) => complete[r])

(***************************************************************************)
(* C2: for every loaded run whose current state is SCHEDULED or RUNNING,   *)
(* the run loop calls the plugin's cancel exactly once, then appends       *)
(* exactly one ledger entry holding the state and note the plugin          *)
(* returned, then sets the completion marker and goes on to the next run.  *)
(***************************************************************************)
C2_CancelRecordsPluginResult ==
    [][\A p \in SeqProcs :
        /\ ( /\ pc[p] = "load" /\ Stepped(p) /\ j[p] <= Len(test_list[p])
             /\ RunLoads(Cursor(p)) /\ PluginKnown(Cursor(p))
             /\ IsCancellableState(StateOf(Cursor(p))) )
           => (pc'[p] = "cancel" /\ j'[p] = j[p] /\ UNCHANGED <<ledger, complete, calls>>)
        /\ (pc[p] = "cancel" /\ Stepped(p))
           => ( /\ pc'[p] = "set" /\ j'[p] = j[p]
                /\ calls' = [calls EXCEPT ![Cursor(p)] = @ + 1]
                /\ cancel_status'[p] \in CancelResults
                /\ UNCHANGED <<ledger, complete>> )
        /\ (pc[p] = "set" /\ Stepped(p))
           => ( /\ pc'[p] = "complete" /\ j'[p] = j[p]
                /\ ledger' = [ledger EXCEPT ![Cursor(p)] = Append(@, cancel_status[p])]
                /\ UNCHANGED <<complete, calls, cancel_status>> )
        /\ (pc[p] = "complete" /\ Stepped(p))
           => ( /\ pc'[p] = "load" /\ j'[p] = j[p] + 1
                /\ complete' = [complete EXCEPT ![Cursor(p)] = TRUE]
                /\ UNCHANGED <<ledger, calls>> )
      ]_vars

\* A RUNNING run whose plugin answered (CANCELLED, note) ends with that entry
\* last, the marker set and one call made.
C2_Witness ==
    \E p \in SeqProcs :
        /\ pc[p] = "load" /\ j[p] = 2 /\ test_list[p][1] = 1
        /\ status[p].state = RUNNING
        /\ cancel_status[p] = StatusInfo(CANCELLED, "terminated by user")
        /\ Current(ledger[1]) = cancel_status[p]
        /\ Len(ledger[1]) = 4
        /\ complete[1] /\ calls[1] = 1
        /\ out[p][Len(out[p])] = TestCancelled(1)

(***************************************************************************)
(* C3: cancelling a run whose current state is not SCHEDULED or RUNNING is *)
(* a no-op: the run loop reports it as not cancellable with its state and  *)
(* goes on without an error, changing no ledger, marker or plugin-call     *)
(* count; and no step at all appends to the ledger of such a run or calls  *)
(* its plugin (its marker is set only by the cancel that made it so), so   *)
(* repeated invocations keep reporting the same state.                     *)
(***************************************************************************)
C3_NotCancellableIsNoOp ==
    [][/\ \A r \in Runs :
            ~IsCancellableState(StateOf(r)) =>
                /\ ledger'[r] = ledger[r]
                /\ calls'[r] = calls[r]
                /\ \/ complete'[r] = complete[r]
                   \/ \E p \in SeqProcs : pc[p] = "complete" /\ Cursor(p) = r
       /\ \A p \in SeqProcs :
            ( /\ pc[p] = "load" /\ Stepped(p) /\ j[p] <= Len(test_list[p])
              /\ RunLoads(Cursor(p)) /\ PluginKnown(Cursor(p))
              /\ ~IsCancellableState(StateOf(Cursor(p))) )
            => ( /\ out'[p] = Append(out[p], NotCancellable(Cursor(p), StateOf(Cursor(p))))
                 /\ pc'[p] = "load" /\ j'[p] = j[p] + 1
                 /\ UNCHANGED <<ledger, complete, calls, err, rc, cancel_failed>> )
      ]_vars

\* A later invocation on a run an earlier one cancelled: reported CANCELLED,
\* status zero, still one plugin call and the ledger as the first cancel left it.
C3_Witness ==
    \E p \in SeqProcs :
        /\ pc[p] = "done" /\ rc[p] = Returned(0)
        /\ tests[p] = <<Tok1, Tok1>>
        /\ out[p] = <<NotCancellable(1, CANCELLED), NotCancellable(1, CANCELLED)>>
        /\ calls[1] = 1 /\ complete[1]
        /\ Len(ledger[1]) = 3

(***************************************************************************)
(* C4: a run whose completion marker is present never accepts a new state  *)
(* transition: no step appends to the ledger of a run whose marker is set. *)
(***************************************************************************)
C4_NoAppendOnceComplete ==
    [][\A r \in Runs : complete[r] => ledger'[r] = ledger[r]]_vars

C6_GroupAndMemberCancelBothAttempted ==
    \A p \in AllProcs :
        pc[p] = "done" =>
            \A k \in 1..Len(out[p]) :
                out[p][k].kind = "killed" =>
                    /\ rc[p] = Returned(0)
                    /\ \A m \in 1..Len(IdRuns(out[p][k].id)) :
                          Reported(p, IdRuns(out[p][k].id)[m])

(***************************************************************************)
(* C7: when the process group recorded for a series no longer exists as    *)
(* the signal is sent, the invocation still resolves the remaining         *)
(* identifiers and still runs every member of the series through the      *)
(* per-run cancel path.                                                    *)
(***************************************************************************)
C7_DeadGroupMembersStillProcessed ==
    \A p \in AllProcs :
        pc[p] = "done" =>
            \A k \in 1..Len(err[p]) :
                err[p][k].kind = "unable_to_kill" =>
                    /\ i[p] > Len(tests[p])
                    /\ \A m \in 1..Len(IdRuns(err[p][k].id)) :
                          Reported(p, IdRuns(err[p][k].id)[m])

(***************************************************************************)
(* C8: a series with no recorded PGID is never group-cancelled (no signal  *)
(* is ever sent for it), and an invocation that named it has, when it      *)
(* returns, cancelled its members one by one through their plugins.        *)
(***************************************************************************)
C8_NoPgidSeriesCancelledByMembers ==
    /\ \A k \in 1..Len(signals) :
          SeriesLookup(signals[k].series).pgid # NoPgid
    /\ \A p \in AllProcs :
          pc[p] = "done" =>
              \A k \in 1..Len(tests[p]) :
                  ( /\ StartsWithS(tests[p][k])
                    /\ SeriesLookup(tests[p][k]).exc = NoError
                    /\ SeriesLookup(tests[p][k]).pgid = NoPgid )
                  => \A m \in 1..Len(IdRuns(tests[p][k])) :
                        LET r == IdRuns(tests[p][k])[m]
                        IN Reported(p, r) /\ (IsCancellableState(StateOf(r)) => complete[r])

(***************************************************************************)
(* C9: for the identifier list of a run id that does not exist and an      *)
(* invalid series id, in either order, both resolution failures are        *)
(* reported, the status is non-zero and no Test Run is loaded.             *)
(***************************************************************************)
C9_EveryResolutionFailureReported ==
    \A p \in AllProcs :
        (pc[p] = "done" /\ tests[p] \in {<<Tok99, TokSX>>, <<TokSX, Tok99>>}) =>
            /\ InSeq(TestNotFound(99), err[p])
            /\ InSeq(SeriesInvalid(TokSX), err[p])
            /\ rc[p] # Returned(0)
            /\ test_object_list[p] = <<>>

(***************************************************************************)
(* C10: an invocation that returns has status zero exactly when every      *)
(* identifier resolved to a series or a loadable run, and EINVAL           *)
(* otherwise; skipped runs and plugin answers other than CANCELLED never   *)
(* change it; and an invocation ends by an exception only for a run whose  *)
(* scheduler the registry does not know, never for an identifier that      *)
(* fails to resolve.                                                       *)
(***************************************************************************)
C10_StatusZeroIffAllResolved ==
    \A p \in SeqProcs :
        /\ pc[p] = "done" =>
              /\ rc[p] \in {Returned(0), Returned(EINVAL)}
              /\ rc[p] = Returned(0) <=> \A k \in 1..Len(tests[p]) : Resolves(tests[p][k])
        /\ pc[p] = "raised" =>
              /\ rc[p] = NotReturned
              /\ j[p] <= Len(test_list[p])
              /\ RunLoads(Cursor(p)) /\ ~PluginKnown(Cursor(p))

\* Status zero after one run was skipped and another's plugin answered ERROR.
C10_Witness ==
    \E p \in SeqProcs :
        /\ pc[p] = "done" /\ rc[p] = Returned(0)
        /\ tests[p] = <<TokS1>>
        /\ \E k \in 1..Len(out[p]) : out[p][k].kind = "not_cancellable" /\ out[p][k].id = Tok1
        /\ InSeq(TestCancelled(2), out[p])
        /\ StateOf(2) = ERROR

(***************************************************************************)
(* C11: the list of runs acted on in one invocation is flat and            *)
(* de-duplicated: no run is loaded (and so cancelled or reported) more     *)
(* than once, however often the identifiers name it.                       *)
(***************************************************************************)
NoDuplicates(q) == \A a, b \in 1..Len(q) : a # b => q[a] # q[b]
C11_RunsActedOnOnce ==
    \A p \in AllProcs : NoDuplicates(test_list[p]) /\ NoDuplicates(test_object_list[p])

(***************************************************************************)
(* C12: when an invocation returns, every input identifier has a reported  *)
(* outcome: a message that carries the identifier, or, for a series, an    *)
(* outcome of the run loop for each of its members.                        *)
(***************************************************************************)
HasOutcome(p, t) ==
    \/ \E k \in 1..Len(out[p]) : out[p][k].id = t
    \/ \E k \in 1..Len(err[p]) : err[p][k].id = t
    \/ /\ StartsWithS(t) /\ SeriesLookup(t).exc = NoError
       /\ \A m \in 1..Len(IdRuns(t)) : Reported(p, IdRuns(t)[m])
C12_EveryIdentifierHasOutcome ==
    \A p \in AllProcs :
        pc[p] = "done" => \A k \in 1..Len(tests[p]) : HasOutcome(p, tests[p][k])

(***************************************************************************)
(* C20: a run that went through the cancel path is reported as cancelled   *)
(* only when the state the plugin returned, and that was recorded, is a    *)
(* cancelled state.                                                        *)
(***************************************************************************)
C20_ReportedCancelledOnlyIfCancelled ==
    \A p \in AllProcs :
        ( /\ pc[p] = "load" /\ j[p] > 1 /\ out[p] # <<>>
          /\ out[p][Len(out[p])] = TestCancelled(test_list[p][j[p] - 1]) )
        => cancel_status[p].state = CANCELLED

(***************************************************************************)
(* C13: a failed lookup of a run's scheduler plugin is fatal: the step     *)
(* that meets it ends the invocation by an uncaught exception, with no     *)
(* per-run failure message and no return value, and from then on the       *)
(* invocation changes no ledger, no marker and calls no plugin, so the     *)
(* runs later in the list are left as they were.                           *)
(***************************************************************************)
C13_PluginLookupFailureIsFatal ==
    [][ \A p \in SeqProcs :
          /\ ( /\ pc[p] = "load" /\ j[p] <= Len(test_list[p])
               /\ RunLoads(Cursor(p)) /\ ~PluginKnown(Cursor(p))
               /\ Stepped(p) )
             => /\ pc'[p] = "raised"
                /\ rc'[p] = NotReturned
                /\ err'[p] = err[p] /\ out'[p] = out[p]
                /\ test_object_list'[p] = test_object_list[p]
                /\ UNCHANGED <<ledger, complete, calls>>
          /\ pc[p] = "raised"
             => /\ pc'[p] \in {"raised", "idle"}
                /\ UNCHANGED <<ledger, complete, calls, alive, signals>> ]_vars
\* Run 3's plugin is unknown and a cancellable run after it was left untouched.
C13_Witness ==
    \E p \in SeqProcs :
        /\ pc[p] = "raised"
        /\ j[p] < Len(test_list[p])
        /\ ~PluginKnown(Cursor(p))
        /\ LET later == test_list[p][j[p] + 1]
           IN /\ later \in Runs \ {Cursor(p)}
              /\ IsCancellableState(StateOf(later))
              /\ ~complete[later]
              /\ calls[later] = 0

(***************************************************************************)
(* C17: a run whose scheduler cancel call timed out is not reported as     *)
(* cancelled, is not recorded as ERROR and is not marked complete.         *)
(***************************************************************************)
C17_TimeoutIsDistinctOutcome ==
    \A p \in AllProcs :
        ( /\ pc[p] = "load" /\ j[p] > 1
          /\ IsCancellableState(status[p].state)
          /\ cancel_status[p] = TimedOut )
        => LET r == test_list[p][j[p] - 1]
           IN /\ ~InSeq(TestCancelled(r), out[p])
              /\ StateOf(r) # ERROR
              /\ ~complete[r]

Begins(p) == pc[p] = "idle" /\ pc'[p] # "idle"
\* The tokens of a list of identifiers.
Range(q) == { q[k] : k \in 1..Len(q) }

(***************************************************************************)
(* C15: an invocation with --all and no identifiers targets exactly the    *)
(* runs the current user owns that have no completion marker, each once;   *)
(* in that invocation no run of another user and no run with the marker is *)
(* handed to a plugin's cancel; with identifiers given, --all adds nothing *)
(* to them.                                                                *)
(***************************************************************************)
C15_AllSelectsOwnUnfinishedRuns ==
    [][ \A p \in SeqProcs :
          /\ (Begins(p) /\ args'[p].tests = <<>> /\ args'[p].all)
             => /\ Range(tests'[p]) =
                     { ToStr(r) : r \in { x \in Runs : Owner[x] = Me /\ ~complete[x] } }
                /\ NoDuplicates(tests'[p])
          /\ (Begins(p) /\ args'[p].tests # <<>>) => tests'[p] = args'[p].tests
          /\ (pc[p] = "cancel" /\ args[p].tests = <<>> /\ args[p].all)
             => (Owner[Cursor(p)] = Me /\ ~complete[Cursor(p)]) ]_vars
\* --all handed one run to its plugin and left out a finished one and a foreign one.
C15_Witness ==
    \E p \in SeqProcs :
        /\ args[p].tests = <<>> /\ args[p].all
        /\ pc[p] = "cancel"
        /\ Len(tests[p]) = 1
        /\ \E r \in Runs \ {Cursor(p)} : Owner[r] = Me /\ complete[r]
        /\ \E r \in Runs : Owner[r] # Me /\ ~complete[r]

(***************************************************************************)
(* C16: an invocation with no identifiers and without --all targets        *)
(* exactly the series last recorded for the user; when none is recorded it *)
(* resolves nothing, reports nothing, signals no group, touches no run and *)
(* returns zero.                                                           *)
(***************************************************************************)
LastSeriesMode(p) == pc[p] # "idle" /\ args[p].tests = <<>> /\ ~args[p].all
C16_DefaultsToLastSeries ==
    [][ \A p \in SeqProcs :
          /\ (Begins(p) /\ args'[p].tests = <<>> /\ ~args'[p].all)
             => tests'[p] = IF user_series # <<>> THEN <<user_series>> ELSE <<>>
          /\ (LastSeriesMode(p) /\ user_series = <<>>)
             => /\ pc[p] \in {"load", "done"}
                /\ test_list[p] = <<>> /\ test_object_list[p] = <<>>
                /\ out[p] = <<>> /\ err[p] = <<>>
                /\ pc[p] = "done" => rc[p] = Returned(0)
                /\ UNCHANGED <<ledger, complete, calls, signals, alive>> ]_vars
C16_Witness ==
    \E p \in SeqProcs :
        /\ LastSeriesMode(p) /\ user_series = <<>>
        /\ pc[p] = "done" /\ rc[p] = Returned(0)
        /\ \E r \in Runs : IsCancellableState(StateOf(r)) /\ ~complete[r] /\ Owner[r] = Me

(***************************************************************************)
(* C18: find_pavilion_config takes the target if it is a file, else        *)
(* PAV_CONFIG_FILE if it is a file, else the first pavilion.yaml that is a *)
(* file in the search directories, in their order; with none of them it    *)
(* returns the empty configuration; a file taken that fails to load raises *)
(* RuntimeError for that file and no later candidate is tried.             *)
(***************************************************************************)
IsAFile(path) == path # NoPath /\ fs[path] \in {"good", "bad"}
\* The positions of the search directories that hold a pavilion.yaml file.
SearchHits ==
    { k \in 1..Len(PAV_CONFIG_SEARCH_DIRS) :
        IsAFile(<<PAV_CONFIG_SEARCH_DIRS[k], "pavilion.yaml">>) }
Chosen ==
    IF IsAFile(target) THEN target
    ELSE IF IsAFile(PAV_CONFIG_FILE) THEN PAV_CONFIG_FILE
    ELSE IF SearchHits # {}
         THEN <<PAV_CONFIG_SEARCH_DIRS[CHOOSE k \in SearchHits : \A m \in SearchHits : k <= m],
                "pavilion.yaml">>
    ELSE NoPath
KillCalled(p) ==
    \/ Len(signals') > Len(signals)
    \/ /\ Len(err'[p]) > Len(err[p])
       /\ err'[p][Len(err'[p])].kind = "unable_to_kill"
C21_NoSignalForUnresolvedSeries ==
    [][ \A p \in SeqProcs :
          (pc[p] = "resolve" /\ KillCalled(p))
          => LET t == tests[p][i[p]]
             IN /\ StartsWithS(t)
                /\ SeriesLookup(t).exc = NoError
                /\ test_list'[p] = test_list[p] \o SeriesRec[ParseInt(Tail(t)).val].tests
                /\ Len(signals') > Len(signals)
                   => signals'[Len(signals')] =
                        [series |-> t, pgid |-> SeriesRec[ParseInt(Tail(t)).val].pgid] ]_vars
\* Series s1 was signalled, then s9, whose PGID is on record but whose members
\* cannot be loaded, ended the invocation with its group left alone.
C21_Witness ==
    \E p \in SeqProcs :
        /\ pc[p] = "done"
        /\ err[p] # <<>> /\ err[p][Len(err[p])] = SeriesNotFound(TokS9)
        /\ SeriesRec[9].pgid \in alive
        /\ Len(signals) = 1 /\ signals[1].series = TokS1

(***************************************************************************)
(* C22: for a cancelled run the ledger append precedes the completion      *)
(* marker: whenever an invocation stands between the two steps the         *)
(* plugin's result is already the last ledger entry, and every step that   *)
(* sets a marker is taken by an invocation whose result is the last ledger *)
(* entry of that run and leaves the ledger alone.                          *)
(***************************************************************************)
C22_AppendPrecedesMarker ==
    [][ /\ \A p \in SeqProcs :
              pc[p] = "complete"
              => Current(ledger[Cursor(p)]) =
                    [state |-> cancel_status[p].state, note |-> cancel_status[p].note]
        /\ \A r \in Runs :
              (~complete[r] /\ complete'[r])
              => /\ ledger'[r] = ledger[r]
                 /\ \E p \in SeqProcs :
                       /\ pc[p] = "complete" /\ Cursor(p) = r
                       /\ Current(ledger[r]) =
                            [state |-> cancel_status[p].state,
                             note |-> cancel_status[p].note] ]_vars
\* Between the two steps: the result is recorded, the marker is not yet set.
C22_Witness ==
    \E p \in SeqProcs :
        /\ pc[p] = "complete"
        /\ ~complete[Cursor(p)]
        /\ cancel_status[p].state = CANCELLED
        /\ Current(ledger[Cursor(p)]) = cancel_status[p]
        /\ Len(ledger[Cursor(p)]) > 1

(***************************************************************************)
(* C23: identifier resolution wholly precedes action on runs. The run loop *)
(* starts only when every identifier is resolved; while identifiers are    *)
(* being resolved no run is loaded, no plugin is called and no ledger or   *)
(* marker changes; an EINVAL for a malformed run id or an unresolvable     *)
(* series is returned from that phase; and an EINVAL because run k of the  *)
(* list cannot be loaded is returned with exactly the runs before k        *)
(* processed, in order, and none after.                                    *)
(***************************************************************************)
IsRunMsg(m) == m.kind \in {"cancelled", "not_cancellable"}
RunMsgs(p) == SelectSeq(out[p], IsRunMsg)
ReturnsEinval(p) == pc[p] # "done" /\ pc'[p] = "done" /\ rc'[p] = <<22>>
C23_ResolutionPrecedesAction ==
    [][ \A p \in SeqProcs :
          /\ pc[p] \in {"load", "cancel", "set", "complete"} => i[p] > Len(tests[p])
          /\ pc[p] = "resolve"
             => /\ test_object_list[p] = <<>> /\ j[p] = 1 /\ RunMsgs(p) = <<>>
                /\ UNCHANGED <<ledger, complete, calls>>
                /\ test_object_list'[p] = <<>>
          /\ pc'[p] = "resolve" => pc[p] \in {"idle", "resolve"}
          /\ pc[p] = "idle" => UNCHANGED <<ledger, complete, calls>>
          /\ ReturnsEinval(p)
             => LET last == err'[p][Len(err'[p])]
                IN IF last.kind \in {"test_invalid", "series_not_found", "series_invalid"}
                   THEN pc[p] = "resolve"
                   ELSE /\ last.kind = "test_not_found"
                        /\ pc[p] = "load"
                        /\ last.id = ToStr(test_list[p][j[p]])
                        /\ test_object_list[p] = SubSeq(test_list[p], 1, j[p] - 1)
                        /\ Len(RunMsgs(p)) = j[p] - 1
                        /\ \A m \in 1..(j[p] - 1) : RunMsgs(p)[m].id = ToStr(test_list[p][m])
                        /\ UNCHANGED <<ledger, complete, calls, out>> ]_vars
\* A cancellable run named before a malformed id is left untouched.
C23_Witness ==
    \E p \in SeqProcs :
        /\ pc[p] = "done" /\ rc[p] = <<22>>
        /\ tests[p] = <<Tok1, TokX>>
        /\ IsCancellableState(StateOf(1)) /\ ~complete[1] /\ calls[1] = 0
        /\ test_object_list[p] = <<>>

\* The directories of a configs result, and whether directory d is skipped.
HasEntry(d) == \E k \in 1..Len(configs.entries) : configs.entries[k].path = d
Skipped(d) == dir_config[d] = "PermissionError" \/ ~working_dir_ok[d]
ConfigsReturned == configs.exc = "none"

(***************************************************************************)
(* C24: the mapping _configs_validator returns has one entry for every     *)
(* config directory that loaded and whose working directory was set up,    *)
(* its keys are pairwise distinct, and every key is the 'label' field of   *)
(* its entry (so a directory with a missing or duplicate label sits under  *)
(* its generated label and replaces nothing).                              *)
(***************************************************************************)
C24_ConfigsKeyedByLabel ==
    ConfigsReturned =>
        /\ \A a, b \in 1..Len(configs.entries) :
              a # b => configs.entries[a].key # configs.entries[b].key
        /\ \A k \in 1..Len(configs.entries) :
              configs.entries[k].key = configs.entries[k].label
        /\ \A k \in 1..Len(pav_cfg_config_dirs) :
              HasEntry(pav_cfg_config_dirs[k]) <=> ~Skipped(pav_cfg_config_dirs[k])

(***************************************************************************)
(* C25: config_dirs_validator ignores a listed directory that does not     *)
(* exist or cannot be accessed: it raises nothing, leaves that directory   *)
(* out of its result and still returns the other listed directories.       *)
(***************************************************************************)
C25_MissingDirIgnored ==
    config_dirs.exc # "pending" =>
        /\ config_dirs.exc = "none"
        /\ \A k \in 1..Len(values) :
              IF values[k] \in {"missing", "locked"}
              THEN ~Member(values[k], config_dirs.dirs)
              ELSE Member(Resolved(values[k]), config_dirs.dirs)

(***************************************************************************)
(* C26: the list config_dirs_validator returns holds no directory twice,   *)
(* also when a listed path resolves to a directory already in it, and is   *)
(* in precedence order: ~/.pavilion (with user_config), PAV_CONFIG_DIR     *)
(* (when set), then the listed directories in the order given.             *)
(***************************************************************************)
RECURSIVE Dedup(_, _)
Dedup(q, acc) ==
    IF q = <<>> THEN acc
    ELSE Dedup(Tail(q), IF Member(Head(q), acc) THEN acc ELSE Append(acc, Head(q)))
ListedDirs == [k \in 1..Len(values) |-> Resolved(values[k])]
Precedence ==
    (IF user_config THEN <<"home">> ELSE <<>>)
    \o (IF PAV_CONFIG_DIR # "None" THEN <<PAV_CONFIG_DIR>> ELSE <<>>)
    \o ListedDirs
C26_DistinctInPrecedenceOrder ==
    config_dirs.exc = "none" =>
        /\ \A a, b \in 1..Len(config_dirs.dirs) :
              a # b => config_dirs.dirs[a] # config_dirs.dirs[b]
        /\ (\A k \in 1..Len(values) : values[k] \notin {"missing", "locked"})
           => config_dirs.dirs = Dedup(Precedence, <<>>)

(***************************************************************************)
(* C27: when a config directory's working directory cannot be set up, or   *)
(* its config cannot be read for lack of permission, _configs_validator    *)
(* skips only that directory: it has no entry in the result and every      *)
(* other directory has one.                                                *)
(***************************************************************************)
C27_OnlyFailingDirSkipped ==
    ConfigsReturned =>
        \A k \in 1..Len(pav_cfg_config_dirs) :
            Skipped(pav_cfg_config_dirs[k])
            => /\ ~HasEntry(pav_cfg_config_dirs[k])
               /\ \A m \in 1..Len(pav_cfg_config_dirs) :
                     ~Skipped(pav_cfg_config_dirs[m]) => HasEntry(pav_cfg_config_dirs[m])

====
